---- MODULE Spec2Model ----
(***************************************************************************)
(* Model of the e-commerce -> warehouse integration service:               *)
(*   integration_service.py  get_country_code, OrderLineItem,              *)
(*                           WarehouseOrder, map_order_to_wms_payload,     *)
(*                           get_ecommerce_order_details,                  *)
(*                           create_warehouse_order                        *)
(*   main.py                 handle_order_webhook                          *)
(*                                                                         *)
(* Money is fixed-point: every amount is an integer number of mills        *)
(* (1/1000 of a currency unit), so 29.99 is 29990 and the 0.01 tolerance   *)
(* of the line-item validator is 10.                                       *)
(* Text the code inspects character by character (country, currency) is a  *)
(* sequence of one-character strings; other text is a TLA+ string.         *)
(***************************************************************************)
EXTENDS Integers, Sequences, FiniteSets, TLC

VARIABLES
    cfg,                   \* module-level configuration read from the environment
    active,                \* the webhook events delivered in this run
    pc,                    \* per event: position inside handle_order_webhook
    payload,               \* per event: EcommerceWebhook.contactId
    process_id,            \* per event: process_id
    ecommerce_order_data,  \* per event: result of get_ecommerce_order_details
    wms_payload_model,     \* per event: result of map_order_to_wms_payload
    success,               \* per event: result of create_warehouse_order
    response,              \* per event: what the caller of the webhook receives
    calls,                 \* per event: the stages invoked so far, in order
    country_name,          \* argument of a direct call of get_country_code
    country_code,          \* its result
    retriever_pc,          \* position inside a call of get_ecommerce_order_details
    contact_id,            \* its argument contact_id
    retries,               \* its argument retries
    delay_seconds,         \* its argument delay_seconds
    attempt,               \* its loop variable attempt
    order_id,              \* its local order_id
    trace,                 \* what it printed and how long it slept, in order
    result                 \* what it returned

vars == <<cfg, active, pc, payload, process_id, ecommerce_order_data,
          wms_payload_model, success, response, calls, country_name, country_code,
          retriever_pc, contact_id, retries, delay_seconds, attempt, order_id,
          trace, result>>

retrieverVars == <<retriever_pc, contact_id, retries, delay_seconds, attempt,
                   order_id, trace, result>>

handlerVars == <<cfg, active, pc, payload, process_id, ecommerce_order_data,
                 wms_payload_model, success, response, calls>>

(***************************************************************************)
(* Bounds                                                                  *)
(***************************************************************************)
MaxItems == 2          \* longest upstream item list
MaxNameLen == 2        \* longest country name built from ProbeChars
MaxRetries == 3        \* largest value of the argument retries
NumEvents == 2         \* webhook events handled concurrently

(***************************************************************************)
(* Python values of a loosely typed JSON document.                         *)
(*   t = "absent" : the key is missing from the dict                       *)
(*   t = "null"   : the key maps to None                                   *)
(*   t = "num"    : a number, n (mills for money, units for quantities)    *)
(*   t = "str"    : a string, s                                            *)
(***************************************************************************)
Absent == [t |-> "absent", n |-> 0, s |-> ""]
Null == [t |-> "null", n |-> 0, s |-> ""]
Num(k) == [t |-> "num", n |-> k, s |-> ""]
Str(x) == [t |-> "str", n |-> 0, s |-> x]

\* Text handled character by character.
TxtAbsent == [t |-> "absent", chars |-> <<>>]
TxtNull == [t |-> "null", chars |-> <<>>]
Txt(cs) == [t |-> "str", chars |-> cs]

\* dict.get(key, default): the default only replaces a missing key, never a None.
Get(v, default) == IF v.t = "absent" THEN default ELSE v

\* Python truthiness of a value (`not x` is its negation).
Truthy(v) == (v.t = "num" /\ v.n # 0) \/ (v.t = "str" /\ v.s # "")

TxtTruthy(v) == v.t = "str" /\ v.chars # <<>>

(***************************************************************************)
(* Characters: str.isalpha, str.upper, str.lower.                          *)
(* "eszett" stands for U+00DF, the one letter of the model whose upper     *)
(* case is two characters (its upper() is 'SS').                          *)
(***************************************************************************)
Lowers == <<"a","b","c","d","e","f","g","h","i","j","k","l","m",
            "n","o","p","q","r","s","t","u","v","w","x","y","z">>
Uppers == <<"A","B","C","D","E","F","G","H","I","J","K","L","M",
            "N","O","P","Q","R","S","T","U","V","W","X","Y","Z">>
Eszett == "eszett"

Range(f) == {f[i] : i \in DOMAIN f}
LowerSet == Range(Lowers)
UpperSet == Range(Uppers)

IsAlphaChar(c) == c \in LowerSet \cup UpperSet \cup {Eszett}

IndexIn(seq, c) == CHOOSE i \in DOMAIN seq : seq[i] = c

\* Upper case of one character, as a sequence of characters.
UpperChar(c) ==
    IF c \in LowerSet THEN <<Uppers[IndexIn(Lowers, c)]>>
    ELSE IF c = Eszett THEN <<"S", "S">>
    ELSE <<c>>

LowerChar(c) ==
    IF c \in UpperSet THEN <<Lowers[IndexIn(Uppers, c)]>>
    ELSE <<c>>

RECURSIVE UpperStr(_)
UpperStr(cs) == IF cs = <<>> THEN <<>> ELSE UpperChar(Head(cs)) \o UpperStr(Tail(cs))

RECURSIVE LowerStr(_)
LowerStr(cs) == IF cs = <<>> THEN <<>> ELSE LowerChar(Head(cs)) \o LowerStr(Tail(cs))

\* str.isalpha(): non-empty and every character alphabetic.
IsAlpha(cs) == cs # <<>> /\ \A i \in DOMAIN cs : IsAlphaChar(cs[i])

(***************************************************************************)
(* Country Code Resolver                                                   *)
(***************************************************************************)
COUNTRY_CODE_MAP ==
    << <<(<<"s","w","e","d","e","n">>), <<"S","E">> >>,
       <<(<<"u","n","i","t","e","d"," ","s","t","a","t","e","s">>), <<"U","S">> >>,
       <<(<<"u","n","i","t","e","d"," ","k","i","n","g","d","o","m">>), <<"G","B">> >>,
       <<(<<"n","o","r","w","a","y">>), <<"N","O">> >>,
       <<(<<"d","e","n","m","a","r","k">>), <<"D","K">> >>,
       <<(<<"f","i","n","l","a","n","d">>), <<"F","I">> >>,
       <<(<<"g","e","r","m","a","n","y">>), <<"D","E">> >>,
       <<(<<"f","r","a","n","c","e">>), <<"F","R">> >>,
       <<(<<"s","p","a","i","n">>), <<"E","S">> >>,
       <<(<<"i","t","a","l","y">>), <<"I","T">> >>,
       <<(<<"n","e","t","h","e","r","l","a","n","d","s">>), <<"N","L">> >>,
       <<(<<"c","a","n","a","d","a">>), <<"C","A">> >>,
       <<(<<"a","u","s","t","r","a","l","i","a">>), <<"A","U">> >>,
       <<(<<"j","a","p","a","n">>), <<"J","P">> >>,
       <<(<<"s","i","n","g","a","p","o","r","e">>), <<"S","G">> >> >>

CountryKeys == {COUNTRY_CODE_MAP[i][1] : i \in DOMAIN COUNTRY_CODE_MAP}

DefaultCountry == <<"U","S">>

\* COUNTRY_CODE_MAP.get(key, "US")
CountryLookup(key) ==
    IF key \in CountryKeys
    THEN COUNTRY_CODE_MAP[CHOOSE i \in DOMAIN COUNTRY_CODE_MAP : COUNTRY_CODE_MAP[i][1] = key][2]
    ELSE DefaultCountry

\* `len(country_name) == 2 and country_name.isalpha()`
IsTwoLetterCode(cs) == Len(cs) = 2 /\ IsAlpha(cs)

\* get_country_code(country_name) for None or a string
get_country_code(name) ==
    IF ~TxtTruthy(name) THEN DefaultCountry
    ELSE IF IsTwoLetterCode(name.chars) THEN UpperStr(name.chars)
    ELSE CountryLookup(LowerStr(name.chars))

(***************************************************************************)
(* Upstream Order Document                                                 *)
(***************************************************************************)
PriceAbsent == [t |-> "absent", sku |-> Absent, amount |-> Absent]
PriceNull == [t |-> "null", sku |-> Absent, amount |-> Absent]
Price(sku, amount) == [t |-> "map", sku |-> sku, amount |-> amount]

Item(price, qty, name) == [price |-> price, qty |-> qty, name |-> name]

ItemsAbsent == [t |-> "absent", list |-> <<>>]
ItemsNull == [t |-> "null", list |-> <<>>]
ItemList(l) == [t |-> "list", list |-> l]

ContactAbsent == [t |-> "absent", id |-> Absent, country |-> TxtAbsent, postalCode |-> Absent]
ContactNull == [t |-> "null", id |-> Absent, country |-> TxtAbsent, postalCode |-> Absent]
Contact(id, country, postalCode) ==
    [t |-> "map", id |-> id, country |-> country, postalCode |-> postalCode]

\* t = "null": None;  t = "empty": {};  t = "map": a non-empty dict
NoDoc == [t |-> "null", id |-> Absent, contact |-> ContactAbsent, items |-> ItemsAbsent,
          amount |-> Absent, currency |-> TxtAbsent]
EmptyDoc == [NoDoc EXCEPT !.t = "empty"]
Doc(id, contact, items, amount, currency) ==
    [t |-> "map", id |-> id, contact |-> contact, items |-> items,
     amount |-> amount, currency |-> currency]

\* `not ecommerce_order_data`
DocFalsy(doc) == doc.t \in {"null", "empty"}

(***************************************************************************)
(* Order Model: OrderLineItem                                              *)
(***************************************************************************)
Abs(x) == IF x < 0 THEN -x ELSE x

Tolerance == 10        \* 0.01 in mills

\* variant of QuantityOk: Field(ge=0) instead of Field(gt=0)
QuantityOkOrZero(q) == q >= 0

\* quantity: int = Field(gt=0)
QuantityOk(q) == q > 0

\* unitPrice / totalPrice: float = Field(ge=0)
PriceOk(p) == p >= 0

\* validate_total_price: `abs(v - expected_total) > 0.01` raises
TotalMismatch(quantity, unitPrice, totalPrice) ==
    Abs(totalPrice - quantity * unitPrice) > Tolerance

\* The validation errors pydantic collects for one line-item dict.
LineItemErrors(li) ==
    (IF li.productSku.t # "str" THEN {"productSku"} ELSE {})
    \cup (IF ~QuantityOk(li.quantity) THEN {"quantity"} ELSE {})
    \cup (IF li.productName.t # "str" THEN {"productName"} ELSE {})
    \cup (IF ~PriceOk(li.unitPrice) THEN {"unitPrice"} ELSE {})
    \cup (IF ~PriceOk(li.totalPrice) THEN {"totalPrice"} ELSE {})
    \cup (IF /\ PriceOk(li.totalPrice) /\ QuantityOk(li.quantity) /\ PriceOk(li.unitPrice)
             /\ TotalMismatch(li.quantity, li.unitPrice, li.totalPrice)
          THEN {"totalPriceMismatch"} ELSE {})

(***************************************************************************)
(* Order Model: WarehouseOrder                                             *)
(***************************************************************************)
\* currency: str = Field(min_length=3, max_length=3)
CurrencyOk(cs) == Len(cs) = 3

\* totalValue: Optional[float]
TotalValueOk(v) == v.t \in {"null", "num"}

OrderErrors(p) ==
    (IF ~TotalValueOk(p.totalValue) THEN {"totalValue"} ELSE {})
    \cup (IF ~CurrencyOk(p.currency) THEN {"currency"} ELSE {})
    \cup (IF p.shippingAddress.postalCode.t # "str" THEN {"postalCode"} ELSE {})
    \cup (IF Len(p.lineItems) < 1 THEN {"lineItems"} ELSE {})
    \cup UNION {LineItemErrors(p.lineItems[i]) : i \in DOMAIN p.lineItems}

(***************************************************************************)
(* Order Transformer                                                       *)
(***************************************************************************)
\* variant of Round2: round(x) instead of round(x, 2)
Round0(x, tieUp) ==
    LET r == x % 1000
        base == x - r
    IN  IF r < 500 THEN base
        ELSE IF r > 500 THEN base + 1000
        ELSE IF tieUp THEN base + 1000 ELSE base

\* round(x, 2) of a float worth x mills.  On a decimal tie (x ends in 5) the
\* result follows the binary value of the float, which lies on either side
\* of the tie (round(0.005, 2) == 0.01 but round(4.005, 2) == 4.0): tieUp.
Round2(x, tieUp) ==
    LET r == x % 10
        base == x - r
    IN  IF r < 5 THEN base
        ELSE IF r > 5 THEN base + 10
        ELSE IF tieUp THEN base + 10 ELSE base

\* variant of SkipItem: the `if not sku` test is dropped
SkipItemNever(sku) == FALSE

\* `if not sku: continue`
SkipItem(sku) == ~Truthy(sku)

\* variant of LineNumber: dense renumbering, len(line_items) + 1
LineNumberDense(i, acc) == Len(acc) + 1

\* "lineNumber": index + 1, with i the 1-based position of the item and acc
\* the line items appended so far
LineNumber(i, acc) == i

\* item.get("price", {}).get("sku")
SkuOf(item) == IF item.price.t = "map" THEN Get(item.price.sku, Null) ELSE Null

\* int(...) and float(...) raise on None and on non-numeric text
Convertible(v) == v.t = "num"

ConversionError(v) == IF v.t = "null" THEN "TypeError" ELSE "ValueError"

\* The `for index, item in enumerate(items)` loop, from item i on.
RECURSIVE BuildLineItems(_, _, _, _)
BuildLineItems(items, i, acc, tieUp) ==
    IF i > Len(items) THEN [exc |-> "", items |-> acc]
    ELSE LET item == items[i]
             sku == SkuOf(item)
             qty == Get(item.qty, Num(1))
             amount == Get(item.price.amount, Num(0))
         IN  IF item.price.t = "null" THEN [exc |-> "AttributeError", items |-> acc]
             ELSE IF SkipItem(sku) THEN BuildLineItems(items, i + 1, acc, tieUp)
             ELSE IF ~Convertible(qty) THEN [exc |-> ConversionError(qty), items |-> acc]
             ELSE IF ~Convertible(amount) THEN [exc |-> ConversionError(amount), items |-> acc]
             ELSE BuildLineItems(items, i + 1,
                      Append(acc, [lineNumber |-> LineNumber(i, acc),
                                   productSku |-> sku,
                                   quantity |-> qty.n,
                                   productName |-> Get(item.name, Str("Unknown Product")),
                                   unitPrice |-> amount.n,
                                   totalPrice |-> Round2(amount.n * qty.n, tieUp)]),
                      tieUp)

WMS_WAREHOUSE_ID == "warehouse_001"

USD == <<"U", "S", "D">>

NoOrder == [warehouseId |-> "", orderNumber |-> "", totalValue |-> Null, currency |-> <<>>,
            shippingAddress |-> [customerNumber |-> "", postalCode |-> Null, countryCode |-> <<>>],
            lineItems |-> <<>>, shippingMethod |-> "", priority |-> ""]

\* f"CUSTOMER-{contact_id}"
CustomerNumber(id) == "CUSTOMER-" \o (IF id.t = "str" THEN id.s ELSE "None")

\* f"ECOM-{order_id}"
OrderNumber(id) == "ECOM-" \o id.s

\* payload_data, given the line items and the upper-cased currency
PayloadData(doc, line_items, currency) ==
    [warehouseId |-> WMS_WAREHOUSE_ID,
     orderNumber |-> OrderNumber(doc.id),
     totalValue |-> Get(doc.amount, Null),
     currency |-> currency,
     shippingAddress |->
         [customerNumber |-> CustomerNumber(doc.contact.id),
          postalCode |-> Get(doc.contact.postalCode, Str("00000")),
          countryCode |-> get_country_code(doc.contact.country)],
     lineItems |-> line_items,
     shippingMethod |-> "standard",
     priority |-> "normal"]

\* What a call of map_order_to_wms_payload does: the value returned or the
\* exception raised, and the line it printed: [pid] <log>: <detail>.
Returned(order, log, pid) ==
    [kind |-> "order", order |-> order, log |-> log, detail |-> {}, exc |-> "", pid |-> pid]
ReturnedNone(log, detail, pid) ==
    [kind |-> "none", order |-> NoOrder, log |-> log, detail |-> detail, exc |-> "", pid |-> pid]
Raised(exc, pid) ==
    [kind |-> "raise", order |-> NoOrder, log |-> "", detail |-> {}, exc |-> exc, pid |-> pid]
NotCalled ==
    [kind |-> "unset", order |-> NoOrder, log |-> "", detail |-> {}, exc |-> "", pid |-> ""]

\* The try block: build payload_data, validate it, return the model; any
\* exception is caught and turned into None.
BuildOrder(doc, line_items, pid) ==
    LET cur == Get(doc.currency, Txt(USD))
        p == PayloadData(doc, line_items, UpperStr(cur.chars))
    IN  IF cur.t # "str" THEN ReturnedNone("Failed to map order data", {"AttributeError"}, pid)
        ELSE IF OrderErrors(p) # {} THEN ReturnedNone("Failed to map order data", OrderErrors(p), pid)
        ELSE Returned(p, "Order mapped and validated", pid)

\* map_order_to_wms_payload(ecommerce_order_data, process_id)
map_order_to_wms_payload(doc, pid, tieUp) ==
    IF DocFalsy(doc) \/ ~Truthy(Get(doc.id, Null))
    THEN ReturnedNone("Invalid order data provided", {}, pid)
    ELSE IF doc.contact.t = "null" THEN Raised("AttributeError", pid)
    ELSE IF doc.items.t # "list" \/ doc.items.list = <<>>
    THEN ReturnedNone("No items found in order", {}, pid)
    ELSE LET built == BuildLineItems(doc.items.list, 1, <<>>, tieUp)
         IN  IF built.exc # "" THEN Raised(built.exc, pid)
             ELSE IF built.items = <<>>
             THEN ReturnedNone("No valid line items after processing", {}, pid)
             ELSE BuildOrder(doc, built.items, pid)

(***************************************************************************)
(* Order Retriever and Fulfillment Submitter                               *)
(***************************************************************************)
\* get_ecommerce_order_details: None when the API token is not configured or
\* when no transaction was found; otherwise the document of the platform.
RetrieverResults(token, docs) == IF token THEN {NoDoc} \cup docs ELSE {NoDoc}

\* get_warehouse_auth_header: None unless both credentials are non-empty
get_warehouse_auth_header(credentials) == credentials

\* create_warehouse_order: False without an auth header, otherwise the
\* (simulated) call succeeds
create_warehouse_order(order, credentials) == get_warehouse_auth_header(credentials)

(***************************************************************************)
(* handle_order_webhook                                                    *)
(***************************************************************************)
NoResponse == [status_code |-> 0, status |-> "", message |-> "",
               wmsOrderNumber |-> "", processId |-> "", error_code |-> ""]

\* SuccessResponse(message, wmsOrderNumber, processId)
SuccessResponse(order, pid) ==
    [status_code |-> 200, status |-> "success",
     message |-> "Order processed and sent to warehouse successfully.",
     wmsOrderNumber |-> order.orderNumber, processId |-> pid, error_code |-> ""]

\* HTTPException(status_code, detail=<text>): the body is the text alone
HTTPException(code, detail) ==
    [status_code |-> code, status |-> "error", message |-> detail,
     wmsOrderNumber |-> "", processId |-> "", error_code |-> ""]

\* `except Exception`: HTTPException(500, detail={message, processId, error_type})
UnexpectedError(pid) ==
    [status_code |-> 500, status |-> "error",
     message |-> "Unexpected error during order processing",
     wmsOrderNumber |-> "", processId |-> pid, error_code |-> "internal_error"]

\* variant of FetchFailed: the `if not ecommerce_order_data` test is dropped
FetchFailedIgnored(data) == FALSE

\* `if not ecommerce_order_data`
FetchFailed(data) == DocFalsy(data)

\* `if not wms_payload_model`
TransformFailed(model) == model.kind = "none"

\* contact ids of inbound events, and values of os.urandom(4).hex()
ContactIds == {"customer_12345"}
ProcessIds == {"a1b2c3d4", "0f9e8d7c"}

\* Step 0: the event arrives, process_id = os.urandom(4).hex()
Receive(e) ==
    /\ pc[e] = "idle"
    /\ \E contactId \in ContactIds : payload' = [payload EXCEPT ![e] = contactId]
    /\ \E pid \in ProcessIds : process_id' = [process_id EXCEPT ![e] = pid]
    /\ pc' = [pc EXCEPT ![e] = "fetch"]
    /\ UNCHANGED <<cfg, active, ecommerce_order_data, wms_payload_model, success,
                   response, calls, country_name, country_code, retrieverVars>>

\* Step 1: get_ecommerce_order_details(payload.contactId), 502 when it is
\* falsy; docs are the documents the platform can answer with
Fetch(e, docs) ==
    /\ pc[e] = "fetch"
    /\ calls' = [calls EXCEPT ![e] = Append(@, "retriever")]
    /\ \E data \in RetrieverResults(cfg.token, docs) :
           /\ ecommerce_order_data' = [ecommerce_order_data EXCEPT ![e] = data]
           /\ IF FetchFailed(data)
              THEN /\ response' = [response EXCEPT ![e] =
                          HTTPException(502, "Failed to fetch order details from e-commerce platform")]
                   /\ pc' = [pc EXCEPT ![e] = "done"]
              ELSE /\ pc' = [pc EXCEPT ![e] = "transform"]
                   /\ UNCHANGED response
    /\ UNCHANGED <<cfg, active, payload, process_id, wms_payload_model, success,
                   country_name, country_code, retrieverVars>>

\* variant of LocalOrderData: one slot shared by every invocation
SharedOrderData(e) == ecommerce_order_data[CHOOSE x \in active : TRUE]

\* `ecommerce_order_data`, a local variable of the invocation handling e
LocalOrderData(e) == ecommerce_order_data[e]

\* Step 2: map_order_to_wms_payload(ecommerce_order_data, process_id);
\* None gives 500, an exception it raises reaches `except Exception`
Transform(e) ==
    /\ pc[e] = "transform"
    /\ calls' = [calls EXCEPT ![e] = Append(@, "transformer")]
    /\ \E tieUp \in BOOLEAN :
         LET model == map_order_to_wms_payload(LocalOrderData(e), process_id[e], tieUp)
         IN  /\ wms_payload_model' = [wms_payload_model EXCEPT ![e] = model]
             /\ IF model.kind = "raise"
                THEN /\ response' = [response EXCEPT ![e] = UnexpectedError(process_id[e])]
                     /\ pc' = [pc EXCEPT ![e] = "done"]
                ELSE IF TransformFailed(model)
                THEN /\ response' = [response EXCEPT ![e] =
                            HTTPException(500, "Failed to transform order data for warehouse processing")]
                     /\ pc' = [pc EXCEPT ![e] = "done"]
                ELSE /\ pc' = [pc EXCEPT ![e] = "submit"]
                     /\ UNCHANGED response
    /\ UNCHANGED <<cfg, active, payload, process_id, ecommerce_order_data, success,
                   country_name, country_code, retrieverVars>>

\* Step 3: create_warehouse_order(wms_payload_model, process_id)
Submit(e) ==
    /\ pc[e] = "submit"
    /\ calls' = [calls EXCEPT ![e] = Append(@, "submitter")]
    /\ LET ok == create_warehouse_order(wms_payload_model[e].order, cfg.credentials)
       IN  /\ success' = [success EXCEPT ![e] = IF ok THEN "true" ELSE "false"]
           /\ response' = [response EXCEPT ![e] =
                  IF ok THEN SuccessResponse(wms_payload_model[e].order, process_id[e])
                  ELSE HTTPException(502, "Failed to create fulfillment order in warehouse system")]
    /\ pc' = [pc EXCEPT ![e] = "done"]
    /\ UNCHANGED <<cfg, active, payload, process_id, ecommerce_order_data,
                   wms_payload_model, country_name, country_code, retrieverVars>>

(***************************************************************************)
(* Inputs                                                                  *)
(***************************************************************************)
SkuPool == {Absent, Null, Str(""), Str("A"), Str("B")}
AmountPool == {Absent, Null, Str("abc"), Num(-1000), Num(1333), Num(1335)}
QtyPool == {Absent, Null, Str("abc"), Num(-1), Num(0), Num(1), Num(2), Num(3)}
NamePool == {Absent, Null, Str("Premium Widget")}

BaseItem == Item(Price(Str("A"), Num(1335)), Num(3), Str("Premium Widget"))

PricePool ==
    {PriceAbsent, PriceNull}
    \cup {Price(sku, BaseItem.price.amount) : sku \in SkuPool}
    \cup {Price(BaseItem.price.sku, amount) : amount \in AmountPool}

\* the base item with one of its fields varied
ItemPool ==
    {Item(price, BaseItem.qty, BaseItem.name) : price \in PricePool}
    \cup {Item(BaseItem.price, qty, BaseItem.name) : qty \in QtyPool}
    \cup {Item(BaseItem.price, BaseItem.qty, name) : name \in NamePool}

SeqsUpTo(S, n) == UNION {[1..k -> S] : k \in 0..n}

IdPool == {Absent, Null, Str(""), Str("order_1"), Str("order_2")}
Sweden == <<"S","w","e","d","e","n">>
CountryPool == {TxtAbsent, TxtNull, Txt(Sweden), Txt(<<"s","e">>), Txt(<<Eszett,"s">>)}
PostalPool == {Absent, Null, Str("10001")}
ContactPool ==
    {ContactAbsent, ContactNull}
    \cup {Contact(Str("contact_1"), country, postalCode) :
              country \in CountryPool, postalCode \in PostalPool}
TotalPool == {Absent, Null, Str("abc"), Num(-5000), Num(8010)}
CurrencyPool == {TxtAbsent, TxtNull, Txt(USD), Txt(<<"u","s","d">>), Txt(<<"E","U">>),
                 Txt(<<"e","u","r","o">>),
                 Txt(<<Eszett, "d">>)}

BaseContact == Contact(Str("contact_1"), Txt(Sweden), Str("10001"))
BaseDoc == Doc(Str("order_1"), BaseContact, ItemList(<<BaseItem>>), Num(8010), Txt(USD))

\* item lists tried with every header
HeaderItems ==
    {ItemsAbsent, ItemsNull, ItemList(<<>>), BaseDoc.items,
     ItemList(<<Item(PriceAbsent, BaseItem.qty, BaseItem.name), BaseItem>>)}

\* the base document with one header field varied
HeaderPool ==
    {[BaseDoc EXCEPT !.id = id] : id \in IdPool}
    \cup {[BaseDoc EXCEPT !.contact = c] : c \in ContactPool}
    \cup {[BaseDoc EXCEPT !.amount = a] : a \in TotalPool}
    \cup {[BaseDoc EXCEPT !.currency = c] : c \in CurrencyPool}

UpstreamDocs ==
    {EmptyDoc}
    \cup {[h EXCEPT !.items = its] : h \in HeaderPool, its \in HeaderItems}
    \cup {[BaseDoc EXCEPT !.items = ItemList(l)] : l \in SeqsUpTo(ItemPool, MaxItems)}

(***************************************************************************)
(* Specification of the webhook pipeline                                   *)
(***************************************************************************)
Idle ==
    /\ pc = [e \in active |-> "idle"]
    /\ payload = [e \in active |-> ""]
    /\ process_id = [e \in active |-> ""]
    /\ ecommerce_order_data = [e \in active |-> NoDoc]
    /\ wms_payload_model = [e \in active |-> NotCalled]
    /\ success = [e \in active |-> "unset"]
    /\ response = [e \in active |-> NoResponse]
    /\ calls = [e \in active |-> <<>>]

\* no direct call of get_ecommerce_order_details is under way
NotFetching ==
    /\ retriever_pc = "off"
    /\ contact_id = ""
    /\ retries = 0
    /\ delay_seconds = 0
    /\ attempt = 0
    /\ order_id = ""
    /\ trace = <<>>
    /\ result = NoDoc

Init ==
    /\ cfg \in [token : BOOLEAN, credentials : BOOLEAN]
    /\ active = {1}
    /\ Idle
    /\ country_name = TxtNull
    /\ country_code = <<>>
    /\ NotFetching

Next ==
    \E e \in active :
        \/ Receive(e)
        \/ Fetch(e, UpstreamDocs)
        \/ Transform(e)
        \/ Submit(e)

Spec == Init /\ [][Next]_vars

(***************************************************************************)
(* Specification of the webhook pipeline fed with well-typed documents     *)
(***************************************************************************)
\* an upstream item that carries a non-empty SKU
SkuBearing(item) ==
    item.price.t = "map" /\ item.price.sku.t = "str" /\ item.price.sku.s # ""

SkuBearingPositions(items) == {i \in DOMAIN items : SkuBearing(items[i])}

\* every field the Transformer reads is absent or of its expected type, and
\* the currency, when given, is three ASCII letters
WellTyped(doc) ==
    /\ doc.contact.t \in {"absent", "map"}
    /\ doc.contact.postalCode.t \in {"absent", "str"}
    /\ doc.amount.t \in {"absent", "null", "num"}
    /\ \/ doc.currency.t = "absent"
       \/ /\ doc.currency.t = "str"
          /\ Len(doc.currency.chars) = 3
          /\ \A i \in DOMAIN doc.currency.chars :
                 doc.currency.chars[i] \in LowerSet \cup UpperSet
    /\ \A i \in DOMAIN doc.items.list :
           LET item == doc.items.list[i]
           IN  /\ item.price.t \in {"absent", "map"}
               /\ SkuBearing(item) =>
                      /\ item.qty.t \in {"absent", "num"}
                      /\ item.price.amount.t \in {"absent", "num"}
                      /\ item.name.t \in {"absent", "str"}

TypedDocs == {doc \in UpstreamDocs : WellTyped(doc)}

NextTyped ==
    \E e \in active :
        \/ Receive(e)
        \/ Fetch(e, TypedDocs)
        \/ Transform(e)
        \/ Submit(e)

SpecTyped == Init /\ [][NextTyped]_vars

(***************************************************************************)
(* Specification of direct calls of the Country Code Resolver              *)
(***************************************************************************)
ProbeChars == {"s", "E", Eszett, "1"}
Atlantis == <<"A","t","l","a","n","t","i","s">>

Capitalized(cs) == UpperChar(Head(cs)) \o Tail(cs)

CountryInputs ==
    {TxtNull}
    \cup {Txt(cs) : cs \in SeqsUpTo(ProbeChars, MaxNameLen)}
    \cup {Txt(k) : k \in CountryKeys}
    \cup {Txt(Capitalized(k)) : k \in CountryKeys}
    \cup {Txt(UpperStr(k)) : k \in CountryKeys}
    \cup {Txt(Atlantis)}

Unresolved == <<>>

InitCountry ==
    /\ cfg = [token |-> TRUE, credentials |-> TRUE]
    /\ active = {}
    /\ Idle
    /\ country_name \in CountryInputs
    /\ country_code = Unresolved
    /\ NotFetching

ResolveCountry ==
    /\ country_code = Unresolved
    /\ country_code' = get_country_code(country_name)
    /\ UNCHANGED <<handlerVars, country_name, retrieverVars>>

NextCountry == ResolveCountry

SpecCountry == InitCountry /\ [][NextCountry]_vars

(***************************************************************************)
(* Specification of get_ecommerce_order_details called on its own          *)
(***************************************************************************)
DefaultRetries == 3
DefaultDelaySeconds == 2

RetriesPool == (0 .. MaxRetries) \cup {DefaultRetries}
DelayPool == {DefaultDelaySeconds, 5}
RetrieverContacts == {"customer_12345", "customer_67890"}

\* int(time.time()) at the moment the transaction is found
Now == "1705314300"

UnitedStates == <<"U","n","i","t","e","d"," ","S","t","a","t","e","s">>

\* what the call prints, and the retry sleep: ev names the line, n carries the
\* attempt number (1-based, as printed) or the seconds slept
Event(ev, n) == [ev |-> ev, n |-> n]

\* the events ev of the trace
Count(ev) == Cardinality({i \in DOMAIN trace : trace[i].ev = ev})

\* `for attempt in range(retries)`
InRange(a, n) == 0 <= a /\ a < n

\* variant of ShouldDelay: the sleep follows every failed attempt
ShouldDelayAlways(a, n) == TRUE

\* `if attempt < retries - 1`
ShouldDelay(a, n) == a < n - 1

\* the document of step 2
mock_order_data(cid, oid) ==
    Doc(Str(oid),
        Contact(Str(cid), Txt(UnitedStates), Str("10001")),
        ItemList(<<Item(Price(Str("WIDGET-001"), Num(29990)), Num(2), Str("Premium Widget")),
                   Item(Price(Str("GADGET-002"), Num(49990)), Num(1), Str("Deluxe Gadget"))>>),
        Num(109970), Txt(USD))

InitRetriever ==
    /\ cfg \in [token : BOOLEAN, credentials : {TRUE}]
    /\ active = {}
    /\ Idle
    /\ country_name = TxtNull
    /\ country_code = Unresolved
    /\ retriever_pc = "call"
    /\ contact_id \in RetrieverContacts
    /\ retries \in RetriesPool
    /\ delay_seconds \in DelayPool
    /\ attempt = 0
    /\ order_id = ""
    /\ trace = <<>>
    /\ result = NoDoc

\* `if not ECOMMERCE_API_TOKEN: return None`, else `order_id = None` and the
\* loop starts
Call ==
    /\ retriever_pc = "call"
    /\ IF cfg.token
       THEN /\ trace' = Append(trace, Event("searching", 0))
            /\ retriever_pc' = "loop"
       ELSE /\ trace' = Append(trace, Event("not_configured", 0))
            /\ retriever_pc' = "done"
    /\ UNCHANGED <<handlerVars, country_name, country_code, contact_id, retries,
                   delay_seconds, attempt, order_id, result>>

\* the try body of one iteration: the lookup either finds the transaction
\* (`break`) or raises
Attempt ==
    /\ retriever_pc = "loop"
    /\ InRange(attempt, retries)
    /\ \/ /\ order_id' = "order_" \o contact_id \o "_" \o Now
          /\ trace' = trace \o <<Event("attempt", attempt + 1), Event("found", attempt + 1)>>
          /\ retriever_pc' = "check"
       \/ /\ trace' = Append(trace, Event("attempt", attempt + 1))
          /\ retriever_pc' = "except"
          /\ UNCHANGED order_id
    /\ UNCHANGED <<handlerVars, country_name, country_code, contact_id, retries,
                   delay_seconds, attempt, result>>

\* `except Exception`: the failure is printed, the delay is slept unless this
\* was the last attempt, and the loop goes on
Handle ==
    /\ retriever_pc = "except"
    /\ trace' = trace \o <<Event("failed", attempt + 1)>>
                      \o (IF ShouldDelay(attempt, retries)
                          THEN <<Event("sleep", delay_seconds)>> ELSE <<>>)
    /\ attempt' = attempt + 1
    /\ retriever_pc' = "loop"
    /\ UNCHANGED <<handlerVars, country_name, country_code, contact_id, retries,
                   delay_seconds, order_id, result>>

\* range(retries) is exhausted
Exhausted ==
    /\ retriever_pc = "loop"
    /\ ~InRange(attempt, retries)
    /\ retriever_pc' = "check"
    /\ UNCHANGED <<handlerVars, country_name, country_code, contact_id, retries,
                   delay_seconds, attempt, order_id, trace, result>>

\* `if not order_id: return None`
AfterLoop ==
    /\ retriever_pc = "check"
    /\ IF order_id = ""
       THEN /\ trace' = Append(trace, Event("not_found", 0))
            /\ retriever_pc' = "done"
       ELSE /\ trace' = Append(trace, Event("fetching", 0))
            /\ retriever_pc' = "details"
    /\ UNCHANGED <<handlerVars, country_name, country_code, contact_id, retries,
                   delay_seconds, attempt, order_id, result>>

\* step 2: the try body returns the document, or raises and None is returned
Details ==
    /\ retriever_pc = "details"
    /\ \/ /\ trace' = Append(trace, Event("fetched", 0))
          /\ result' = mock_order_data(contact_id, order_id)
       \/ /\ trace' = Append(trace, Event("details_failed", 0))
          /\ UNCHANGED result
    /\ retriever_pc' = "done"
    /\ UNCHANGED <<handlerVars, country_name, country_code, contact_id, retries,
                   delay_seconds, attempt, order_id>>

NextRetriever ==
    \/ Call
    \/ Attempt
    \/ Handle
    \/ Exhausted
    \/ AfterLoop
    \/ Details

\* a call that has started runs to its return
SpecRetriever == InitRetriever /\ [][NextRetriever]_vars /\ WF_vars(NextRetriever)

(***************************************************************************)
(* Specification of concurrent invocations of handle_order_webhook: the    *)
(* stages of the events interleave in every order                          *)
(***************************************************************************)
SecondItem == Item(Price(Str("B"), Num(1333)), Num(1), Str("Premium Widget"))

\* documents the platform answers with: two orders that convert, one without
\* items, one whose item has a null price
ConcDocs ==
    {BaseDoc,
     [BaseDoc EXCEPT !.id = Str("order_2"), !.items = ItemList(<<SecondItem>>)],
     [BaseDoc EXCEPT !.items = ItemList(<<>>)],
     [BaseDoc EXCEPT !.id = Str("order_2"),
                     !.items = ItemList(<<Item(PriceNull, Num(1), Str("Premium Widget"))>>)]}

InitConc ==
    /\ cfg \in [token : BOOLEAN, credentials : BOOLEAN]
    /\ active = 1 .. NumEvents
    /\ Idle
    /\ country_name = TxtNull
    /\ country_code = Unresolved
    /\ NotFetching

NextConc ==
    \E e \in active :
        \/ Receive(e)
        \/ Fetch(e, ConcDocs)
        \/ Transform(e)
        \/ Submit(e)

SpecConc == InitConc /\ [][NextConc]_vars

(***************************************************************************)
(* Properties                                                              *)
(***************************************************************************)
Stages == <<"retriever", "transformer", "submitter">>

IsPrefix(s, t) == Len(s) <= Len(t) /\ \A i \in DOMAIN s : s[i] = t[i]

\* the upstream items of event e
ItemsOf(e) == ecommerce_order_data[e].items.list

\* the line items of the order built for event e
LinesOf(e) == wms_payload_model[e].order.lineItems

\* the Transformer was invoked for event e
Transformed(e) == wms_payload_model[e].kind # "unset"

\* identifier present, item list present
ValidDoc(doc) == doc.t = "map" /\ doc.id.t = "str" /\ doc.id.s # "" /\ doc.items.t = "list"

\* C1: the handler invokes Retriever, Transformer, Submitter in this order,
\* each at most once, and stops at the first stage that fails: no document
\* gives 502 with the Retriever alone invoked, no order gives 500 without the
\* Submitter, a failed submission gives 502, and a success response (status
\* "success", wmsOrderNumber = "ECOM-" + upstream identifier) is returned only
\* when all three stages succeeded.
C1_StagesInOrder ==
    \A e \in active :
        /\ IsPrefix(calls[e], Stages)
        /\ (pc[e] = "done" /\ ecommerce_order_data[e].t = "null"
               => response[e].status_code = 502 /\ calls[e] = <<"retriever">>)
        /\ (pc[e] = "done" /\ wms_payload_model[e].kind = "none"
               => response[e].status_code = 500 /\ calls[e] = <<"retriever", "transformer">>)
        /\ (success[e] = "false" => response[e].status_code = 502)
        /\ (response[e].status_code = 200
               => /\ calls[e] = Stages
                  /\ ecommerce_order_data[e].t = "map"
                  /\ wms_payload_model[e].kind = "order"
                  /\ success[e] = "true"
                  /\ response[e].status = "success"
                  /\ response[e].wmsOrderNumber = wms_payload_model[e].order.orderNumber
                  /\ response[e].wmsOrderNumber = "ECOM-" \o ecommerce_order_data[e].id.s)

C1_Witness ==
    \E e \in active :
        /\ response[e].status_code = 200
        /\ calls[e] = Stages
        /\ response[e].wmsOrderNumber = "ECOM-order_2"

\* a SKU-bearing item whose quantity is not strictly positive or whose unit
\* price (hence total price) is negative
ViolatesLineInvariant(item) ==
    \/ item.qty.t = "num" /\ item.qty.n <= 0
    \/ item.price.amount.t = "num" /\ item.price.amount.n < 0

C3_LineNumberIsSourcePosition ==
    \A e \in active :
        wms_payload_model[e].kind = "order" =>
            /\ \A k \in DOMAIN LinesOf(e) :
                   LET n == LinesOf(e)[k].lineNumber
                   IN  /\ n \in SkuBearingPositions(ItemsOf(e))
                       /\ Cardinality({j \in SkuBearingPositions(ItemsOf(e)) : j <= n}) = k
                       /\ LinesOf(e)[k].productSku = ItemsOf(e)[n].price.sku
            /\ \A k \in DOMAIN LinesOf(e) :
                   k > 1 => LinesOf(e)[k - 1].lineNumber < LinesOf(e)[k].lineNumber

C3_Witness ==
    \E e \in active :
        /\ wms_payload_model[e].kind = "order"
        /\ Len(LinesOf(e)) = 1
        /\ LinesOf(e)[1].lineNumber = 2

\* C4: when no line item survives filtering the Transformer returns no order:
\* an empty item list fails with NoItems, a non-empty list whose items all lack
\* a SKU fails with NoValidItems; the handler answers 500 and the Submitter is
\* never invoked.
C4_NoItemsFailures ==
    \A e \in active :
        pc[e] = "done" /\ Transformed(e) /\ ValidDoc(ecommerce_order_data[e])
            /\ SkuBearingPositions(ItemsOf(e)) = {}
        => /\ wms_payload_model[e].kind = "none"
           /\ wms_payload_model[e].log =
                  IF ItemsOf(e) = <<>> THEN "No items found in order"
                  ELSE "No valid line items after processing"
           /\ response[e].status_code = 500
           /\ calls[e] = <<"retriever", "transformer">>

\* C5: the Transformer never raises an exception to its caller: it returns a
\* validated order or a failure result for every upstream document.
C5_TransformerNeverRaises ==
    \A e \in active : wms_payload_model[e].kind # "raise"

\* C6: every failure response of the order-created webhook carries a
\* classification code and the processId generated for that event.
C6_FailuresCarryCodeAndProcessId ==
    \A e \in active :
        response[e].status_code \notin {0, 200}
        => /\ response[e].error_code # ""
           /\ response[e].processId = process_id[e]

\* C7: every order the Transformer returns has a non-negative totalValue.
C7_TotalValueNonNegative ==
    \A e \in active :
        wms_payload_model[e].kind = "order"
            /\ wms_payload_model[e].order.totalValue.t = "num"
        => wms_payload_model[e].order.totalValue.n >= 0

\* C8: construction is atomic: when some SKU-bearing item violates a line-item
\* invariant the Transformer returns no order at all, and every order it does
\* return has a non-empty lineItems list whose items all have a non-empty
\* productSku, quantity > 0, unitPrice >= 0 and totalPrice >= 0.
C8_AtomicConstruction ==
    \A e \in active :
        /\ (Transformed(e)
               /\ (\E i \in SkuBearingPositions(ItemsOf(e)) : ViolatesLineInvariant(ItemsOf(e)[i]))
            => wms_payload_model[e].kind # "order")
        /\ (wms_payload_model[e].kind = "order"
            => /\ LinesOf(e) # <<>>
               /\ \A k \in DOMAIN LinesOf(e) :
                      /\ LinesOf(e)[k].productSku.t = "str"
                      /\ LinesOf(e)[k].productSku.s # ""
                      /\ LinesOf(e)[k].quantity > 0
                      /\ LinesOf(e)[k].unitPrice >= 0
                      /\ LinesOf(e)[k].totalPrice >= 0)

C8_Witness ==
    \E e \in active :
        /\ wms_payload_model[e].kind = "none"
        /\ wms_payload_model[e].log = "Failed to map order data"
        /\ Len(ItemsOf(e)) = 2
        /\ SkuBearing(ItemsOf(e)[1]) /\ ~ViolatesLineInvariant(ItemsOf(e)[1])
        /\ SkuBearing(ItemsOf(e)[2]) /\ ItemsOf(e)[2].qty = Num(0)

\* C9: every line item of a produced order has a totalPrice with two decimal
\* places that is nearest to quantity * unitPrice, hence within 0.01 of it, and
\* the tolerance check of the line-item validator never rejects a total the
\* Transformer computed.
C9_TotalPriceRounded ==
    \A e \in active :
        /\ "totalPriceMismatch" \notin wms_payload_model[e].detail
        /\ wms_payload_model[e].kind = "order" =>
               \A k \in DOMAIN LinesOf(e) :
                   LET li == LinesOf(e)[k]
                       exact == li.quantity * li.unitPrice
                   IN  /\ li.totalPrice % 10 = 0
                       /\ 2 * Abs(li.totalPrice - exact) <= 10
                       /\ Abs(li.totalPrice - exact) <= Tolerance

C9_Witness ==
    \E e \in active :
        /\ wms_payload_model[e].kind = "order"
        /\ \E k \in DOMAIN LinesOf(e) :
               /\ LinesOf(e)[k].quantity * LinesOf(e)[k].unitPrice = 3999
               /\ LinesOf(e)[k].totalPrice = 4000

\* C10: get_country_code always returns a 2-letter upper-case code: "US" for
\* absent or empty input, the input upper-cased when it is exactly 2 alphabetic
\* characters, otherwise the table entry of the lower-cased input or "US".
C10_TwoLetterUpperCaseCode ==
    country_code # Unresolved =>
        /\ Len(country_code) = 2
        /\ \A i \in DOMAIN country_code : country_code[i] \in UpperSet
        /\ (country_name.t = "null" \/ country_name.chars = <<>>
               => country_code = <<"U", "S">>)
        /\ (country_name.chars \in {Sweden, <<"s","w","e","d","e","n">>}
               => country_code = <<"S", "E">>)
        /\ (country_name.chars = Atlantis => country_code = <<"U", "S">>)

\* the currency of the upstream document and of the order built for event e
UpstreamCurrency(e) == ecommerce_order_data[e].currency
OrderCurrency(e) == wms_payload_model[e].order.currency

\* C11 (first part): the currency of every produced order is exactly 3
\* characters, none of them lower-case, and is "USD" when the upstream document
\* carries no currency.
C11_CurrencyThreeUpper ==
    \A e \in active :
        wms_payload_model[e].kind = "order" =>
            /\ Len(OrderCurrency(e)) = 3
            /\ \A i \in DOMAIN OrderCurrency(e) :
                   OrderCurrency(e)[i] \notin LowerSet \cup {Eszett}
            /\ (UpstreamCurrency(e).t = "absent" => OrderCurrency(e) = <<"U", "S", "D">>)

\* C11: the currency of every produced order is exactly 3 characters and
\* upper-cased, it is "USD" when the upstream document carries no currency, and
\* an upstream currency whose length is not 3 never yields an order.
C11_CurrencyOfOrders ==
    /\ C11_CurrencyThreeUpper
    /\ \A e \in active :
           wms_payload_model[e].kind = "order" /\ UpstreamCurrency(e).t = "str"
               => Len(UpstreamCurrency(e).chars) = 3

\* the call of get_ecommerce_order_details has returned
CallReturned == retriever_pc = "done"

\* every lookup attempt made so far failed (none was made included)
EveryAttemptFailed == Count("found") = 0

\* at most `retries` attempts, none after a success, and the delay only
\* between a failed attempt and the next one
RetryDiscipline ==
    /\ Count("attempt") <= retries
    /\ \A i, j \in DOMAIN trace :
           trace[i].ev = "found" /\ trace[j].ev = "attempt" => j < i
    /\ \A i \in DOMAIN trace :
           trace[i].ev = "sleep" =>
               /\ trace[i].n = delay_seconds
               /\ i > 1 /\ trace[i - 1].ev = "failed" /\ trace[i - 1].n < retries
               /\ i < Len(trace) => trace[i + 1].ev = "attempt"
               /\ i = Len(trace) => retriever_pc = "loop" /\ InRange(attempt, retries)

\* C12 as stated: at most `retries` lookup attempts, none after the first
\* success, the fixed delay only between a failed attempt and the next one, the
\* call always returns, and it returns no order exactly when every attempt
\* failed.
C12_NoOrderIffEveryAttemptFailed ==
    /\ [](RetryDiscipline
          /\ (CallReturned => (result = NoDoc <=> EveryAttemptFailed)))
    /\ <>CallReturned

\* C12 (amended): at most `retries` lookup attempts (retries >= 0), none after
\* the first success, the fixed delay only between a failed attempt and the
\* next one, the call always returns, it reports "could not find order" exactly
\* when the token is configured and every attempt failed, and it returns no
\* order exactly when every attempt failed or fetching the details failed.
C12_BoundedRetry ==
    /\ [](RetryDiscipline
          /\ (CallReturned =>
                 /\ Count("not_found") = 1 <=> cfg.token /\ EveryAttemptFailed
                 /\ result = NoDoc <=>
                        EveryAttemptFailed \/ Count("details_failed") = 1))
    /\ <>CallReturned

\* the default three attempts all failed: two delays were slept and no order
\* was returned
C12_Witness ==
    /\ CallReturned
    /\ retries = DefaultRetries
    /\ Count("failed") = 3
    /\ Count("sleep") = 2
    /\ trace[Len(trace)].ev = "not_found"
    /\ result = NoDoc

\* what handle_order_webhook answers when it handles one event on its own,
\* given the document retrieved, the process id drawn and the rounding
ProcessedAlone(data, pid, tieUp) ==
    IF DocFalsy(data)
    THEN HTTPException(502, "Failed to fetch order details from e-commerce platform")
    ELSE LET model == map_order_to_wms_payload(data, pid, tieUp)
         IN  IF model.kind = "raise" THEN UnexpectedError(pid)
             ELSE IF model.kind = "none"
             THEN HTTPException(500, "Failed to transform order data for warehouse processing")
             ELSE IF create_warehouse_order(model.order, cfg.credentials)
             THEN SuccessResponse(model.order, pid)
             ELSE HTTPException(502, "Failed to create fulfillment order in warehouse system")

\* the order of event e is built from its own document with its own process
\* id, and its answer is the one it gets when handled alone
Isolated(e) ==
    \E tieUp \in BOOLEAN :
        /\ Transformed(e) =>
               /\ wms_payload_model[e] =
                      map_order_to_wms_payload(ecommerce_order_data[e], process_id[e], tieUp)
               /\ wms_payload_model[e].pid = process_id[e]
               /\ wms_payload_model[e].kind = "order" =>
                      wms_payload_model[e].order.orderNumber =
                          OrderNumber(ecommerce_order_data[e].id)
        /\ pc[e] = "done" =>
               response[e] = ProcessedAlone(ecommerce_order_data[e], process_id[e], tieUp)
        /\ pc[e] # "done" => response[e] = NoResponse

\* once drawn, the process id and the retrieved document of an event stay
KeepsOwn(e) ==
    /\ process_id[e] # "" => process_id'[e] = process_id[e]
    /\ "retriever" \in Range(calls[e]) =>
           ecommerce_order_data'[e] = ecommerce_order_data[e]
    /\ Transformed(e) => wms_payload_model'[e] = wms_payload_model[e]

\* C13: concurrent invocations share no mutable state: under every
\* interleaving of the stages of the events, each event keeps its own process
\* id, document and order, the order handed to the Submitter is built from its
\* own document, and its outcome is the one it has when processed alone.
C13_EventsIsolated ==
    /\ [](\A e \in active : Isolated(e))
    /\ [][\A e \in active : KeepsOwn(e)]_vars

\* two events with different process ids and different documents were in
\* flight together and both completed, one with its own order accepted, the
\* other failing in the Transformer
C13_Witness ==
    /\ {1, 2} \subseteq active
    /\ pc[1] = "done" /\ pc[2] = "done"
    /\ process_id[1] # process_id[2]
    /\ ecommerce_order_data[1].id # ecommerce_order_data[2].id
    /\ response[1] = SuccessResponse(wms_payload_model[1].order, process_id[1])
    /\ response[1].wmsOrderNumber = "ECOM-order_1"
    /\ response[2] = UnexpectedError(process_id[2])
    /\ calls[1] = Stages
    /\ calls[2] = <<"retriever", "transformer">>

====
